---- MODULE Spec2Model ----
(***************************************************************************)
(* A model of Wt's WEnvironment (src/src/Wt/WEnvironment.C): the request   *)
(* environment snapshot built by init() (phase 1) and upgraded by          *)
(* enableAjax() (phase 2), with the helpers getClientAddress(),            *)
(* setUserAgent() and parseCookies().                                      *)
(*                                                                         *)
(* std::string is modelled by TLA+ strings; TLC evaluates Len, \o and      *)
(* SubSeq on them, so substring search, trimming, splitting and numeric    *)
(* parsing are computed character by character as the C++ code does.       *)
(***************************************************************************)
EXTENDS Integers, Sequences, FiniteSets, TLC

(***************************************************************************)
(* std::string / boost string algorithms                                   *)
(***************************************************************************)

\* std::string::npos, the "not found" position (positions are 0-based)
npos == 0 - 1

\* s[i] for a 0-based position i
at(s, i) == SubSeq(s, i + 1, i + 1)

\* std::string::substr(pos): the suffix starting at 0-based position pos
substrFrom(s, pos) == SubSeq(s, pos + 1, Len(s))

\* std::string::substr(0, n); n = npos takes the whole string
substrTo(s, n) == IF n = npos THEN s ELSE SubSeq(s, 1, n)

RECURSIVE findFrom(_, _, _)
findFrom(s, p, i) ==
  IF i + Len(p) > Len(s) THEN npos
  ELSE IF SubSeq(s, i + 1, i + Len(p)) = p THEN i
  ELSE findFrom(s, p, i + 1)

\* std::string::find(p): 0-based position of the first occurrence, or npos
find(s, p) == findFrom(s, p, 0)

RECURSIVE rfindFrom(_, _, _)
rfindFrom(s, p, i) ==
  IF i < 0 THEN npos
  ELSE IF SubSeq(s, i + 1, i + Len(p)) = p THEN i
  ELSE rfindFrom(s, p, i - 1)

\* std::string::rfind(p): position of the last occurrence, or npos
rfind(s, p) == rfindFrom(s, p, Len(s) - Len(p))

\* boost::starts_with
starts_with(s, p) == Len(p) <= Len(s) /\ SubSeq(s, 1, Len(p)) = p

\* the characters boost::trim removes (std::isspace in the "C" locale)
isSpace(c) == c \in {" ", "\t", "\n", "\r"}

RECURSIVE trimLeft(_)
trimLeft(s) ==
  IF Len(s) > 0 /\ isSpace(at(s, 0)) THEN trimLeft(substrFrom(s, 1)) ELSE s

RECURSIVE trimRight(_)
trimRight(s) ==
  IF Len(s) > 0 /\ isSpace(at(s, Len(s) - 1))
  THEN trimRight(SubSeq(s, 1, Len(s) - 1)) ELSE s

\* boost::trim
trim(s) == trimRight(trimLeft(s))

RECURSIVE split(_, _)
\* boost::split(list, s, boost::is_any_of(sep)) for a one-character
\* separator, token_compress_off: n separators give n + 1 tokens, and the
\* empty string gives one empty token
split(s, sep) ==
  LET e == find(s, sep) IN
  IF e = npos THEN <<s>>
  ELSE <<substrTo(s, e)>> \o split(substrFrom(s, e + 1), sep)

isDigit(c) == c \in {"0", "1", "2", "3", "4", "5", "6", "7", "8", "9"}

digitValue(c) ==
  CASE c = "0" -> 0 [] c = "1" -> 1 [] c = "2" -> 2 [] c = "3" -> 3
    [] c = "4" -> 4 [] c = "5" -> 5 [] c = "6" -> 6 [] c = "7" -> 7
    [] c = "8" -> 8 [] c = "9" -> 9

allDigits(s) == \A i \in 0..(Len(s) - 1) : isDigit(at(s, i))

RECURSIVE digitsValue(_)
digitsValue(s) ==
  IF Len(s) = 0 THEN 0
  ELSE 10 * digitsValue(SubSeq(s, 1, Len(s) - 1)) + digitValue(at(s, Len(s) - 1))

hasSign(s) == Len(s) > 0 /\ at(s, 0) \in {"+", "-"}

RECURSIVE negValue(_)
\* the negated value of a digit string, accumulated digit by digit within
\* the range of int: ok = FALSE once it would pass INT_MIN
negValue(s) ==
  IF Len(s) = 0 THEN [ok |-> TRUE, val |-> 0]
  ELSE LET p == negValue(SubSeq(s, 1, Len(s) - 1))
           d == digitValue(at(s, Len(s) - 1))
       IN IF /\ p.ok
             /\ \/ 0 - p.val < 2147483647 \div 10
                \/ 0 - p.val = 2147483647 \div 10 /\ d <= 8
          THEN [ok |-> TRUE, val |-> p.val * 10 - d]
          ELSE [ok |-> FALSE, val |-> 0]

\* boost::lexical_cast<int>: an optional sign and at least one digit, the
\* whole string consumed, the value within int; anything else throws
\* bad_lexical_cast (ok = FALSE)
lexical_cast_int(s) ==
  LET neg  == Len(s) > 0 /\ at(s, 0) = "-"
      body == IF hasSign(s) THEN substrFrom(s, 1) ELSE s
      n    == IF Len(body) > 0 /\ allDigits(body) THEN negValue(body)
              ELSE [ok |-> FALSE, val |-> 0]
  IN IF n.ok /\ (neg \/ n.val >= 0 - 2147483647)
     THEN [ok |-> TRUE, val |-> IF neg THEN n.val ELSE 0 - n.val]
     ELSE [ok |-> FALSE, val |-> 0]

RECURSIVE stripZeros(_)
stripZeros(s) ==
  IF Len(s) > 0 /\ at(s, Len(s) - 1) = "0"
  THEN stripZeros(SubSeq(s, 1, Len(s) - 1)) ELSE s

\* a double with a decimal representation: sign, integer part and the
\* fraction digits without trailing zeros (exact, no rounding)
Double(neg, ip, fp) == [neg |-> neg, ip |-> ip, fp |-> fp]

\* the double an int converts to
fromInt(n) == Double(FALSE, n, "")

\* boost::lexical_cast<double> on decimal notation: an optional sign,
\* digits with an optional '.', at least one digit, the whole string
\* consumed; anything else throws bad_lexical_cast (ok = FALSE).  The
\* inputs of this model use neither exponents nor inf/nan.
lexical_cast_double(s) ==
  LET neg  == Len(s) > 0 /\ at(s, 0) = "-"
      body == IF hasSign(s) THEN substrFrom(s, 1) ELSE s
      dot  == find(body, ".")
      ip   == IF dot = npos THEN body ELSE substrTo(body, dot)
      fp   == IF dot = npos THEN "" ELSE substrFrom(body, dot + 1)
  IN IF allDigits(ip) /\ allDigits(fp) /\ Len(ip) + Len(fp) > 0
     THEN [ok |-> TRUE, val |-> Double(neg, digitsValue(ip), stripZeros(fp))]
     ELSE [ok |-> FALSE, val |-> fromInt(0)]

\* v >= n for a double v and a natural number n > 0
doubleGeq(v, n) == ~v.neg /\ v.ip >= n


(***************************************************************************)
(* Collaborators of WEnvironment: Utils, WebRequest, Configuration         *)
(***************************************************************************)

\* Utils::insert(result, elements): appends elements at the end of result
insert(result, elements) == result \o elements

\* Utils::prepend(s, c): s made to start with the character c
prepend(s, c) == IF Len(s) > 0 /\ at(s, 0) = c THEN s ELSE c \o s

\* the %XX escapes that occur in the modelled inputs
PercentCodes ==
  [h \in {"20", "25", "3B", "3D", "61"} |->
     CASE h = "20" -> " " [] h = "25" -> "%" [] h = "3B" -> ";"
       [] h = "3D" -> "=" [] h = "61" -> "a"]

RECURSIVE urlDecode(_)
\* Utils::urlDecode: every %XX escape replaced by the character it encodes
urlDecode(s) ==
  IF Len(s) = 0 THEN ""
  ELSE IF at(s, 0) = "%" /\ Len(s) >= 3 /\ SubSeq(s, 2, 3) \in DOMAIN PercentCodes
       THEN PercentCodes[SubSeq(s, 2, 3)] \o urlDecode(substrFrom(s, 3))
       ELSE at(s, 0) \o urlDecode(substrFrom(s, 1))

\* the parameters enableAjax() looks up
ParamNames == {"htmlHistory", "scale", "tz", "_", "deployPath"}

\* a parameter map without any value (Http::ParameterMap)
NoParameters == [n \in ParamNames |-> <<>>]

\* WebRequest::getParameter(name): the first value of the parameter, or a
\* null pointer; modelled by a sequence of at most one string
getParameter(req, name) ==
  IF req.parameters[name] # <<>> THEN <<req.parameters[name][1]>> ELSE <<>>

\* a request without headers, environment values or parameters: header and
\* environment lookups of a missing name give the empty string
BlankRequest ==
  [UserAgent |-> "", Host |-> "", XForwardedHost |-> "", ClientIP |-> "",
   XForwardedFor |-> "", Cookie |-> "", Referer |-> "", Accept |-> "",
   REMOTE_ADDR |-> "", SERVER_SIGNATURE |-> "", SERVER_SOFTWARE |-> "",
   SERVER_ADMIN |-> "", serverName |-> "", serverPort |-> "",
   queryString |-> "", urlScheme |-> "", pathInfo |-> "", locale |-> "",
   sslInfo |-> 0, parameters |-> NoParameters]

\* Configuration::agentIsBot: the configured bot predicate, a list of
\* patterns of which one has to occur in the user agent
agentIsBot(cf, userAgent) ==
  \E p \in cf.botList : find(userAgent, p) # npos

\* the number of enableAjax() calls explored
MaxAjaxSessions == 2

(***************************************************************************)
(* The state: a WEnvironment object, the configuration it reads, the       *)
(* requests handed to it and the controller's count of AJAX sessions       *)
(***************************************************************************)
VARIABLES
  conf,                  \* Configuration: behindReverseProxy, botList
  pc,                    \* "constructed" until init() has run
  request,               \* the request init() was called with
  ajaxRequest,           \* the request of the last enableAjax() call
  ajaxSessions,          \* WebController: number of newAjaxSession() calls
  doesAjax_, doesCookies_, hashInternalPaths_, dpiScale_, timeZoneOffset_,
  internalPath_, publicDeploymentPath_,
  host_, clientAddress_, cookies_, userAgent_, agent_, locale_,
  queryString_, parameters_, urlScheme_, referer_, accept_, pathInfo_,
  serverSignature_, serverSoftware_, serverAdmin_, sslInfo_

\* the fields enableAjax() assigns
interactive ==
  <<doesAjax_, doesCookies_, hashInternalPaths_, dpiScale_, timeZoneOffset_,
    internalPath_, publicDeploymentPath_>>

\* the fields only init() assigns
basic ==
  <<host_, clientAddress_, cookies_, userAgent_, agent_, locale_,
    queryString_, parameters_, urlScheme_, referer_, accept_, pathInfo_,
    serverSignature_, serverSoftware_, serverAdmin_, sslInfo_>>

vars == <<conf, pc, request, ajaxRequest, ajaxSessions, interactive, basic>>

(***************************************************************************)
(* WEnvironment::setUserAgent                                              *)
(***************************************************************************)

\* userAgent_.find(token) != std::string::npos
has(ua, token) == find(ua, token) # npos

\* lines 232-251: the Internet Explorer chain, starting from Unknown
agentIE(ua) ==
  IF \/ has(ua, "MSIE 2.") \/ has(ua, "MSIE 3.") \/ has(ua, "MSIE 4.")
     \/ has(ua, "MSIE 5.") \/ has(ua, "IEMobile") THEN "IEMobile"
  ELSE IF has(ua, "MSIE 6.") THEN "IE6"
  ELSE IF has(ua, "Trident/5.0") THEN "IE9"
  ELSE IF has(ua, "Trident/6.0") THEN "IE10"
  ELSE IF has(ua, "MSIE 7.") THEN "IE7"
  ELSE IF has(ua, "MSIE 8.") THEN "IE8"
  ELSE IF has(ua, "MSIE 9.") THEN "IE9"
  ELSE IF has(ua, "MSIE") THEN "IE10"
  ELSE "Unknown"

\* lines 253-268: Opera, Opera10 when the text after "Version/" up to the
\* next space is a number >= 10
agentOpera(ua, agent) ==
  IF has(ua, "Opera") THEN
    LET t == find(ua, "Version/") IN
    IF t # npos THEN
      LET rest == substrFrom(ua, t + 8)
          sp   == find(rest, " ")
          vs   == IF sp # npos THEN substrTo(rest, sp) ELSE rest
          v    == lexical_cast_double(vs)
      IN IF v.ok /\ doubleGeq(v.val, 10) THEN "Opera10" ELSE "Opera"
    ELSE "Opera"
  ELSE agent

\* lines 270-308: Chrome, Safari, WebKit, Konqueror, Gecko
agentWebKit(ua, agent) ==
  IF has(ua, "Chrome") THEN
    IF has(ua, "Chrome/0.") THEN "Chrome0"
    ELSE IF has(ua, "Chrome/1.") THEN "Chrome1"
    ELSE IF has(ua, "Chrome/2.") THEN "Chrome2"
    ELSE IF has(ua, "Chrome/3.") THEN "Chrome3"
    ELSE IF has(ua, "Chrome/4.") THEN "Chrome4"
    ELSE "Chrome5"
  ELSE IF has(ua, "Safari") THEN
    IF has(ua, "iPhone") \/ has(ua, "iPad") THEN "MobileWebKitiPhone"
    ELSE IF has(ua, "Android") THEN "MobileWebKitAndroid"
    ELSE IF has(ua, "Mobile") THEN "MobileWebKit"
    ELSE IF ~has(ua, "Version") THEN
      IF has(ua, "Arora") THEN "Arora" ELSE "Safari"
    ELSE IF has(ua, "Version/3") THEN "Safari3"
    ELSE "Safari4"
  ELSE IF has(ua, "WebKit") THEN
    IF has(ua, "iPhone") THEN "MobileWebKitiPhone" ELSE "WebKit"
  ELSE IF has(ua, "Konqueror") THEN "Konqueror"
  ELSE IF has(ua, "Gecko") THEN "Gecko"
  ELSE agent

\* lines 310-333: Firefox
agentFirefox(ua, agent) ==
  IF has(ua, "Firefox") THEN
    IF has(ua, "Firefox/0.") THEN "Firefox"
    ELSE IF has(ua, "Firefox/1.") THEN "Firefox"
    ELSE IF has(ua, "Firefox/2.") THEN "Firefox"
    ELSE IF has(ua, "Firefox/3.0") THEN "Firefox3_0"
    ELSE IF has(ua, "Firefox/3.1") THEN "Firefox3_1"
    ELSE IF has(ua, "Firefox/3.1b") THEN "Firefox3_1b"
    ELSE IF has(ua, "Firefox/3.5") THEN "Firefox3_5"
    ELSE IF has(ua, "Firefox/3.6") THEN "Firefox3_6"
    ELSE IF has(ua, "Firefox/4.") THEN "Firefox4_0"
    ELSE "Firefox5_0"
  ELSE agent

\* the bot check made before the browser chains, which then override it
agentBotFirst(cf, ua, agent) ==
  IF agentIsBot(cf, ua) /\ agent = "Unknown" THEN "BotAgent" ELSE agent

\* lines 335-336: the bot predicate overrides the classification
agentBot(cf, ua, agent) ==
  IF agentIsBot(cf, ua) THEN "BotAgent" ELSE agent

\* the value setUserAgent(userAgent) leaves in agent_
classify(cf, ua) ==
  agentBot(cf, ua, agentFirefox(ua, agentWebKit(ua, agentOpera(ua, agentIE(ua)))))

(***************************************************************************)
(* WEnvironment::getClientAddress                                          *)
(***************************************************************************)

\* a candidate accepted although it lies in 172.16.*
acceptsNoSlash16(result) ==
  /\ result # ""
  /\ ~starts_with(result, "10.")
  /\ ~starts_with(result, "192.168.")

\* lines 168-171: the candidate that ends the scan
accepts(result) ==
  /\ result # ""
  /\ ~starts_with(result, "10.")
  /\ ~starts_with(result, "172.16.")
  /\ ~starts_with(result, "192.168.")

RECURSIVE scan(_, _, _)
\* lines 163-174: result after the loop over ips from index i (1-based here)
scan(ips, i, result) ==
  IF i > Len(ips) THEN result
  ELSE LET r == trim(ips[i]) IN
       IF accepts(r) THEN r ELSE scan(ips, i + 1, r)

\* lines 147-161: the entries of Client-IP followed by those of
\* X-Forwarded-For
candidates(req) ==
  LET clientIp     == trim(req.ClientIP)
      ips          == IF clientIp # "" THEN split(clientIp, ",") ELSE <<>>
      forwardedFor == trim(req.XForwardedFor)
      forwardedIps == IF forwardedFor # "" THEN split(forwardedFor, ",") ELSE <<>>
  IN insert(ips, forwardedIps)

getClientAddress(req, cf) ==
  LET result == IF cf.behindReverseProxy THEN scan(candidates(req), 1, "") ELSE ""
  IN IF result = "" THEN req.REMOTE_ADDR ELSE result

(***************************************************************************)
(* WEnvironment::parseCookies                                              *)
(***************************************************************************)

\* the map m with m[k] = v
put(m, k, v) == [x \in DOMAIN m \cup {k} |-> IF x = k THEN v ELSE m[x]]

\* a store that keeps the value of the first entry with a name
storeKeepFirst(result, cookieName, cookieValue) ==
  IF cookieName # "" /\ cookieName \notin DOMAIN result
  THEN put(result, cookieName, cookieValue) ELSE result

\* lines 466-467: if (cookieName != "") result[cookieName] = cookieValue
store(result, cookieName, cookieValue) ==
  IF cookieName # "" THEN put(result, cookieName, cookieValue) ELSE result

\* lines 455-456, 461, 464: the name of a list entry
cookieNameOf(entry) == urlDecode(trim(substrTo(entry, find(entry, "="))))

\* lines 455, 457-459, 462, 465: the value of a list entry
cookieValueOf(entry) ==
  LET e == find(entry, "=") IN
  urlDecode(trim(IF e # npos /\ Len(entry) > e + 1
                 THEN substrFrom(entry, e + 1) ELSE ""))

RECURSIVE parseList(_, _, _)
\* lines 454-468: the loop over list from index i (1-based here)
parseList(list, i, result) ==
  IF i > Len(list) THEN result
  ELSE parseList(list, i + 1,
                 store(result, cookieNameOf(list[i]), cookieValueOf(list[i])))

parseCookies(cookie, result) == parseList(split(cookie, ";"), 1, result)

(***************************************************************************)
(* WEnvironment::init                                                      *)
(***************************************************************************)

\* lines 100-125: the server host name
hostOf(req, cf) ==
  LET forwardedHost == req.XForwardedHost
      i == rfind(forwardedHost, ",")
      h == IF cf.behindReverseProxy /\ forwardedHost # ""
           THEN IF i = npos THEN forwardedHost ELSE substrFrom(forwardedHost, i + 1)
           ELSE req.Host
  IN IF h = ""
     THEN IF req.serverPort # "" THEN req.serverName \o ":" \o req.serverPort
          ELSE req.serverName
     ELSE h

\* cookie support taken from the cookies the header parses into
cookieSupportParsed(req) == DOMAIN parseCookies(req.Cookie, <<>>) # {}

\* lines 129-130 and 188: !request.headerValue("Cookie").empty()
cookieSupport(req) == req.Cookie # ""

init(req) ==
  /\ pc = "constructed"
  /\ pc' = "initialized"
  /\ request' = req
  /\ queryString_' = req.queryString
  /\ parameters_' = req.parameters
  /\ urlScheme_' = req.urlScheme
  /\ referer_' = req.Referer
  /\ accept_' = req.Accept
  /\ serverSignature_' = req.SERVER_SIGNATURE
  /\ serverSoftware_' = req.SERVER_SOFTWARE
  /\ serverAdmin_' = req.SERVER_ADMIN
  /\ pathInfo_' = req.pathInfo
  /\ sslInfo_' = req.sslInfo
  /\ userAgent_' = req.UserAgent
  /\ agent_' = classify(conf, req.UserAgent)
  /\ host_' = hostOf(req, conf)
  /\ clientAddress_' = getClientAddress(req, conf)
  /\ doesCookies_' = cookieSupport(req)
  /\ cookies_' = IF cookieSupport(req) THEN parseCookies(req.Cookie, cookies_)
                 ELSE cookies_
  /\ locale_' = req.locale
  /\ UNCHANGED <<conf, ajaxRequest, ajaxSessions, doesAjax_, hashInternalPaths_,
                 dpiScale_, timeZoneOffset_, internalPath_,
                 publicDeploymentPath_>>

(***************************************************************************)
(* WEnvironment::enableAjax                                                *)
(***************************************************************************)

\* lines 59-65
setInternalPath(path) == IF path = "" THEN path ELSE prepend(path, "/")

\* lines 193-199: dpiScale_ from the scale parameter
dpiScaleAfter(scaleE) ==
  IF scaleE = <<>> THEN fromInt(1)
  ELSE LET v == lexical_cast_double(scaleE[1]) IN
       IF v.ok THEN v.val ELSE fromInt(1)

\* a tz parameter that does not parse resets the offset
timeZoneOffsetReset(tzE, old) ==
  IF tzE = <<>> THEN 0
  ELSE LET v == lexical_cast_int(tzE[1]) IN IF v.ok THEN v.val ELSE 0

\* lines 201-206: timeZoneOffset_ from the tz parameter; the assignment
\* does not happen when lexical_cast throws
timeZoneOffsetAfter(tzE, old) ==
  IF tzE = <<>> THEN 0
  ELSE LET v == lexical_cast_int(tzE[1]) IN IF v.ok THEN v.val ELSE old

\* a deployPath accepted when it has a '/' anywhere
deploymentPathAnySlash(deployPathE, old) ==
  IF deployPathE = <<>> THEN old
  ELSE IF find(deployPathE[1], "/") = npos THEN "" ELSE deployPathE[1]

\* lines 215-221: publicDeploymentPath_ from the deployPath parameter
deploymentPathAfter(deployPathE, old) ==
  IF deployPathE = <<>> THEN old
  ELSE IF find(deployPathE[1], "/") # 0 THEN "" ELSE deployPathE[1]

\* an upgrade that parses the cookies of the upgrade request as well
ajaxReparsesCookies(req) ==
  /\ cookies_' = IF cookieSupport(req) THEN parseCookies(req.Cookie, cookies_)
                 ELSE cookies_
  /\ UNCHANGED <<host_, clientAddress_, userAgent_, agent_, locale_,
                 queryString_, parameters_, urlScheme_, referer_, accept_,
                 pathInfo_, serverSignature_, serverSoftware_, serverAdmin_,
                 sslInfo_>>

\* lines 183-222: the members enableAjax(request) does not assign
ajaxKeeps(req) == UNCHANGED basic

enableAjax(req) ==
  /\ pc = "initialized"
  /\ ajaxSessions < MaxAjaxSessions
  /\ ajaxRequest' = req
  /\ doesAjax_' = TRUE
  /\ ajaxSessions' = ajaxSessions + 1
  /\ doesCookies_' = cookieSupport(req)
  /\ hashInternalPaths_' = IF getParameter(req, "htmlHistory") = <<>> THEN TRUE
                           ELSE hashInternalPaths_
  /\ dpiScale_' = dpiScaleAfter(getParameter(req, "scale"))
  /\ timeZoneOffset_' = timeZoneOffsetAfter(getParameter(req, "tz"), timeZoneOffset_)
  /\ internalPath_' = IF getParameter(req, "_") # <<>>
                      THEN setInternalPath(getParameter(req, "_")[1])
                      ELSE internalPath_
  /\ publicDeploymentPath_' =
       deploymentPathAfter(getParameter(req, "deployPath"), publicDeploymentPath_)
  /\ ajaxKeeps(req)
  /\ UNCHANGED <<conf, pc, request>>

(***************************************************************************)
(* Construction and the inputs explored                                    *)
(***************************************************************************)

\* values an agent_ that was never assigned may hold: the constructors
\* leave it out of their initializer lists
IndeterminateAgents == {"Unknown", "BotAgent", "Firefox3_1b"}

\* lines 38-48: the members after WEnvironment(session); strings and maps
\* are default-constructed, agent_ is indeterminate until setUserAgent
constructed ==
  /\ pc = "constructed"
  /\ request = BlankRequest
  /\ ajaxRequest = BlankRequest
  /\ ajaxSessions = 0
  /\ doesAjax_ = FALSE
  /\ doesCookies_ = FALSE
  /\ hashInternalPaths_ = FALSE
  /\ dpiScale_ = fromInt(1)
  /\ timeZoneOffset_ = 0
  /\ sslInfo_ = 0
  /\ internalPath_ = "" /\ publicDeploymentPath_ = ""
  /\ host_ = "" /\ clientAddress_ = "" /\ userAgent_ = "" /\ locale_ = ""
  /\ queryString_ = "" /\ urlScheme_ = "" /\ referer_ = "" /\ accept_ = ""
  /\ pathInfo_ = "" /\ serverSignature_ = "" /\ serverSoftware_ = ""
  /\ serverAdmin_ = ""
  /\ cookies_ = <<>>
  /\ parameters_ = NoParameters
  /\ agent_ \in IndeterminateAgents

RECURSIVE Lists(_, _, _)
\* the strings made of 1..n parts joined by sep
Lists(parts, sep, n) ==
  IF n <= 1 THEN parts
  ELSE LET shorter == Lists(parts, sep, n - 1) IN
       shorter \cup {l \o sep \o q : l \in shorter, q \in parts}

\* the configurations: with and without a reverse proxy, and bot lists
\* that match nothing, a crawler, or every Firefox
BotLists == {{}, {"Googlebot"}, {"Firefox"}}

Configurations ==
  [behindReverseProxy : BOOLEAN, botList : BotLists]

\* entries of a header: at most this many per header value
MaxIps == 2
MaxHosts == 2
MaxCookies == 3
MaxTokens == 2

\* Client-IP values: private, public and empty entries, some padded
ClientIpHeaders ==
  Lists({"", "10.0.0.1", " 8.8.8.8", "172.16.0.9", "192.168.1.1", "1.2.3.4"},
        ",", MaxIps)

\* X-Forwarded-For values
ForwardedForHeaders ==
  Lists({" ", "10.0.0.1", "192.168.1.1", "1.2.3.4 ", "172.16.0.9"}, ",", MaxIps)

RemoteAddr == "203.0.113.5"

AddressRequests ==
  {[BlankRequest EXCEPT !.ClientIP = c, !.XForwardedFor = f,
                        !.REMOTE_ADDR = RemoteAddr] :
     c \in ClientIpHeaders, f \in ForwardedForHeaders \cup {""}}

HostHeaders == Lists({"", "a.example", " b"}, ",", MaxHosts)

HostRequests ==
  {[BlankRequest EXCEPT !.XForwardedHost = x, !.Host = h, !.serverName = n,
                        !.serverPort = q] :
     x \in HostHeaders, h \in {"", "h.example"}, n \in {"", "srv"},
     q \in {"", "8080"}}

CookieEntries ==
  {"", " ", "a=1", " a = 2 ", "a", "b=", "=x", "b=c=d", "%61=%3B", "%20=1",
   "c"}

CookieHeaders == Lists(CookieEntries, ";", MaxCookies)

CookieRequests == {[BlankRequest EXCEPT !.Cookie = c] : c \in CookieHeaders}

AgentTokens ==
  {"", "MSIE 6.0", "MSIE", "Trident/5.0", "Opera", "Version/10.50",
   "Version/9.x", "Chrome/3.0", "Chrome", "Safari", "iPhone", "WebKit",
   "Konqueror", "Gecko", "Firefox/2.0", "Firefox/3.0", "Firefox/3.1",
   "Firefox/3.1b3", "Firefox/3.5", "Firefox/3.6", "Firefox/4.0",
   "Firefox/9.0", "Googlebot"}

UserAgents == Lists(AgentTokens, " ", MaxTokens)

AgentRequests == {[BlankRequest EXCEPT !.UserAgent = u] : u \in UserAgents}

\* the first requests of the two-phase runs
FirstRequests ==
  {[BlankRequest EXCEPT !.Cookie = c, !.UserAgent = u, !.Host = "h.example",
                        !.REMOTE_ADDR = RemoteAddr, !.queryString = "a=b",
                        !.urlScheme = "http", !.Referer = "r", !.Accept = "*/*",
                        !.pathInfo = "/p", !.locale = "en", !.sslInfo = 1,
                        !.parameters = [NoParameters EXCEPT !["tz"] = <<"5">>]] :
     c \in {"", "a=1", ";"}, u \in {"Firefox/3.6", ""}}

\* an upgrade request: other headers than the first requests have, and
\* the given Cookie header and upgrade parameters
Upgrade(c, hh, sc, tz, ip, dp) ==
  [BlankRequest EXCEPT !.Cookie = c, !.UserAgent = "Chrome/9.0",
                       !.Host = "other.example", !.ClientIP = "8.8.8.8",
                       !.REMOTE_ADDR = "198.51.100.7", !.queryString = "x=y",
                       !.urlScheme = "https", !.Referer = "r2",
                       !.Accept = "text/html", !.pathInfo = "/q",
                       !.locale = "nl", !.sslInfo = 2,
                       !.parameters = [n \in ParamNames |->
                          CASE n = "htmlHistory" -> hh [] n = "scale" -> sc
                            [] n = "tz" -> tz [] n = "_" -> ip
                            [] n = "deployPath" -> dp]]

ScaleValues == {<<>>, <<"1.5">>, <<"abc">>}
TzValues == {<<>>, <<"-60">>, <<"abc">>, <<"2147483648">>, <<"90", "30">>}
PathValues == {<<>>, <<"">>, <<"a/b">>}
DeployValues == {<<>>, <<"/app">>, <<"foo">>, <<"a/b">>, <<"">>}

\* the upgrade requests: each parameter absent, valid and invalid, varied
\* together with the parameters it is handled next to
UpgradeRequests ==
  {Upgrade(c, hh, <<>>, <<>>, ip, <<>>) :
     c \in {"", "b=2"}, hh \in {<<>>, <<"true">>}, ip \in PathValues}
  \cup {Upgrade("b=2", <<>>, sc, tz, <<>>, <<>>) :
          sc \in ScaleValues, tz \in TzValues}
  \cup {Upgrade("", <<"true">>, <<>>, tz, <<>>, dp) :
          tz \in {<<>>, <<"abc">>}, dp \in DeployValues}

(***************************************************************************)
(* Specifications                                                          *)
(***************************************************************************)

\* phase 1 on any first request, then upgrades
Phase1 == pc = "constructed" /\ \E req \in FirstRequests : init(req)
Phase2 == \E req \in UpgradeRequests : enableAjax(req)

Init == constructed /\ conf \in {cf \in Configurations : cf.botList = {}}
Next == Phase1 \/ Phase2
Spec == Init /\ [][Next]_vars

\* init() on requests that vary the address headers
InitAddress == constructed /\ conf \in {cf \in Configurations : cf.botList = {}}
ResolveAddress == pc = "constructed" /\ \E req \in AddressRequests : init(req)
SpecAddress == InitAddress /\ [][ResolveAddress]_vars

\* init() on requests that vary the host headers and server values
InitHost == constructed /\ conf \in {cf \in Configurations : cf.botList = {}}
ResolveHost == pc = "constructed" /\ \E req \in HostRequests : init(req)
SpecHost == InitHost /\ [][ResolveHost]_vars

\* init() on requests that vary the Cookie header
InitCookies ==
  constructed /\ conf = [behindReverseProxy |-> FALSE, botList |-> {}]
ReadCookies == pc = "constructed" /\ \E req \in CookieRequests : init(req)
SpecCookies == InitCookies /\ [][ReadCookies]_vars

\* init() on requests that vary the User-Agent header, under each bot list
InitAgent ==
  constructed /\ conf \in {cf \in Configurations : ~cf.behindReverseProxy}
ClassifyAgent == pc = "constructed" /\ \E req \in AgentRequests : init(req)
SpecAgent == InitAgent /\ [][ClassifyAgent]_vars

(***************************************************************************)
(* Properties of getClientAddress, checked under SpecAddress               *)
(***************************************************************************)

\* the prefixes of a private candidate
isPrivate(c) ==
  \/ find(c, "10.") = 0
  \/ find(c, "172.16.") = 0
  \/ find(c, "192.168.") = 0

\* a trimmed candidate that is non-empty and not private
qualifies(c) == c # "" /\ ~isPrivate(c)

\* the comma-split entries of Client-IP, then those of X-Forwarded-For,
\* each trimmed
combined(req) ==
  LET l == split(req.ClientIP, ",") \o split(req.XForwardedFor, ",")
  IN [i \in 1..Len(l) |-> trim(l[i])]

\* C1: with the reverse-proxy flag set, when no candidate of the combined
\* list qualifies, the client address is the REMOTE_ADDR value
C1_FallbackToRemoteAddr ==
  (/\ pc = "initialized"
   /\ conf.behindReverseProxy
   /\ \A i \in 1..Len(combined(request)) : ~qualifies(combined(request)[i]))
  => clientAddress_ = request.REMOTE_ADDR

\* C2: with the reverse-proxy flag set, when some candidate qualifies, the
\* client address is the first qualifying candidate of the combined list,
\* Client-IP entries before X-Forwarded-For entries
C2_FirstQualifying ==
  (pc = "initialized" /\ conf.behindReverseProxy)
  => LET l == combined(request) IN
     \A i \in 1..Len(l) :
       (qualifies(l[i]) /\ \A j \in 1..(i - 1) : ~qualifies(l[j]))
       => clientAddress_ = l[i]

\* a run in which private and public candidates precede the one returned,
\* which comes from X-Forwarded-For after a Client-IP header without any
\* qualifying entry
C2_Witness ==
  /\ pc = "initialized"
  /\ conf.behindReverseProxy
  /\ request.ClientIP = "10.0.0.1,172.16.0.9"
  /\ request.XForwardedFor = "192.168.1.1,1.2.3.4 "
  /\ clientAddress_ = "1.2.3.4"

(***************************************************************************)
(* Properties of the host name, checked under SpecHost                     *)
(***************************************************************************)

\* C3: after init the host is non-empty whenever the Host header, the
\* server name or the server port is non-empty
C3_HostNotEmpty ==
  (/\ pc = "initialized"
   /\ \/ request.Host # ""
      \/ request.serverName # ""
      \/ request.serverPort # "")
  => host_ # ""

(***************************************************************************)
(* Properties of setUserAgent, checked under SpecAgent                     *)
(***************************************************************************)

\* C7: a Firefox user agent that is no bot and has the token Firefox/3.1b
\* (and none of the tokens tested before it) is Firefox3_1b
C7_Firefox31b ==
  (/\ pc = "initialized"
   /\ ~agentIsBot(conf, userAgent_)
   /\ has(userAgent_, "Firefox/3.1b")
   /\ ~has(userAgent_, "Firefox/0.") /\ ~has(userAgent_, "Firefox/1.")
   /\ ~has(userAgent_, "Firefox/2.") /\ ~has(userAgent_, "Firefox/3.0"))
  => agent_ = "Firefox3_1b"

\* C8: after setUserAgent the agent is BotAgent exactly when the bot
\* predicate holds of the user agent
C8_BotOverride ==
  pc = "initialized" => (agent_ = "BotAgent" <=> agentIsBot(conf, userAgent_))

\* a bot whose user agent has Chrome and Firefox tokens
C8_Witness ==
  /\ pc = "initialized"
  /\ userAgent_ = "Chrome/3.0 Firefox/3.6"
  /\ conf.botList = {"Firefox"}
  /\ agent_ = "BotAgent"

(***************************************************************************)
(* Properties of parseCookies, checked under SpecCookies                   *)
(***************************************************************************)

\* the trimmed, decoded text before the first '=' of an entry
entryName(entry) ==
  LET e == find(entry, "=") IN
  urlDecode(trim(IF e = npos THEN entry ELSE SubSeq(entry, 1, e)))

\* the trimmed, decoded text after the first '=', empty without '='
entryValue(entry) ==
  LET e == find(entry, "=") IN
  urlDecode(trim(IF e = npos THEN "" ELSE SubSeq(entry, e + 2, Len(entry))))

\* C10: the cookie map has exactly the non-empty entry names as keys, and
\* each key has the value of the last entry of the header with that name
C10_LastEntryWins ==
  pc = "initialized" =>
    LET entries == split(request.Cookie, ";") IN
    /\ DOMAIN cookies_ =
         {entryName(entries[i]) : i \in 1..Len(entries)} \ {""}
    /\ \A i \in 1..Len(entries) :
         (/\ entryName(entries[i]) # ""
          /\ \A j \in (i + 1)..Len(entries) :
               entryName(entries[j]) # entryName(entries[i]))
         => cookies_[entryName(entries[i])] = entryValue(entries[i])

\* a header with three entries of the same name, one without a name and
\* one without a value
C10_Witness ==
  /\ pc = "initialized"
  /\ request.Cookie = "a=1;%61=%3B; a = 2 "
  /\ cookies_ = [n \in {"a"} |-> "2"]

(***************************************************************************)
(* Properties of the two phases, checked under Spec                        *)
(***************************************************************************)

\* a step that is an enableAjax() call; ajaxRequest' is its request
isAjaxCall == ajaxSessions' = ajaxSessions + 1

\* C4 as stated: the cookie-support flag is true exactly when the Cookie
\* header of the first request was non-empty, whatever later upgrade
\* requests carry
C4_CookieSupportFromPhase1 ==
  pc = "initialized" => (doesCookies_ <=> request.Cookie # "")

\* C4 amended: the cookie-support flag is true exactly when the Cookie
\* header of the last request handled (that of init, or of the last
\* enableAjax) was non-empty, whether or not cookies were parsed from it
C4_CookieSupportFromLastRequest ==
  pc = "initialized" =>
    (doesCookies_ <=>
       (IF ajaxSessions = 0 THEN request.Cookie ELSE ajaxRequest.Cookie) # "")

\* after a first request whose Cookie header gave no cookie, and an
\* upgrade request with a Cookie header
C4_Witness ==
  /\ pc = "initialized"
  /\ request.Cookie = ";" /\ cookies_ = <<>>
  /\ ajaxSessions > 0 /\ ajaxRequest.Cookie = "b=2"
  /\ doesCookies_

\* C5: an enableAjax call leaves the timezone offset 0 without a tz
\* parameter, the parsed integer with one that parses, and the offset it
\* had before with one that does not parse; the scale is 1.0 both without
\* a scale parameter and with one that does not parse
C5_TzAndScale ==
  [][isAjaxCall =>
       LET tzE == ajaxRequest'.parameters["tz"]
           scaleE == ajaxRequest'.parameters["scale"]
       IN /\ tzE = <<>> => timeZoneOffset_' = 0
          /\ (tzE # <<>> /\ lexical_cast_int(tzE[1]).ok)
               => timeZoneOffset_' = lexical_cast_int(tzE[1]).val
          /\ (tzE # <<>> /\ ~lexical_cast_int(tzE[1]).ok)
               => timeZoneOffset_' = timeZoneOffset_
          /\ (scaleE = <<>> \/ ~lexical_cast_double(scaleE[1]).ok)
               => dpiScale_' = fromInt(1)]_vars

\* a second call with an unparsable tz and scale, after a first one that
\* set the offset to -60
C5_Witness ==
  /\ ajaxSessions = 2
  /\ ajaxRequest.parameters["tz"] = <<"abc">>
  /\ ajaxRequest.parameters["scale"] = <<"abc">>
  /\ timeZoneOffset_ = 0 - 60
  /\ dpiScale_ = fromInt(1)

\* C6: an enableAjax call with a deployPath parameter leaves the public
\* deployment path equal to the value when its first character is '/',
\* and empty otherwise; a call without the parameter leaves it unchanged
C6_DeployPath ==
  [][isAjaxCall =>
       LET dpE == ajaxRequest'.parameters["deployPath"]
       IN /\ (dpE # <<>> /\ Len(dpE[1]) > 0 /\ SubSeq(dpE[1], 1, 1) = "/")
               => publicDeploymentPath_' = dpE[1]
          /\ (dpE # <<>> /\ (Len(dpE[1]) = 0 \/ SubSeq(dpE[1], 1, 1) # "/"))
               => publicDeploymentPath_' = ""
          /\ dpE = <<>> => publicDeploymentPath_' = publicDeploymentPath_]_vars

\* a second call whose deployPath has a '/' that is not its first character
C6_Witness ==
  /\ ajaxSessions = 2
  /\ ajaxRequest.parameters["deployPath"] = <<"a/b">>
  /\ publicDeploymentPath_ = ""

\* C9: an enableAjax call leaves host, client address, cookies, user
\* agent, agent, locale, query string, parameters, URL scheme, referer,
\* accept and path info as they were
C9_AjaxFrame ==
  [][isAjaxCall =>
       /\ host_' = host_ /\ clientAddress_' = clientAddress_
       /\ cookies_' = cookies_ /\ userAgent_' = userAgent_
       /\ agent_' = agent_ /\ locale_' = locale_
       /\ queryString_' = queryString_ /\ parameters_' = parameters_
       /\ urlScheme_' = urlScheme_ /\ referer_' = referer_
       /\ accept_' = accept_ /\ pathInfo_' = pathInfo_]_vars

\* after an upgrade request with other headers, cookies and parameters
\* than the first request: the snapshot still has those of the first
C9_Witness ==
  /\ ajaxSessions > 0
  /\ request.Cookie = "a=1" /\ ajaxRequest.Cookie = "b=2"
  /\ cookies_ = [n \in {"a"} |-> "1"]
  /\ request.UserAgent = "Firefox/3.6" /\ ajaxRequest.UserAgent = "Chrome/9.0"
  /\ agent_ = "Firefox3_6"
  /\ host_ = "h.example" /\ clientAddress_ = RemoteAddr
  /\ ajaxRequest.parameters["tz"] = <<"-60">> /\ parameters_["tz"] = <<"5">>
  /\ timeZoneOffset_ = 0 - 60

====
